---- MODULE Spec2Model ----
(***************************************************************************)
(* TypeBridge CLI (src/src/index.ts): GraphQL schema -> TypeScript         *)
(* declarations.  Strings are TLA+ strings; the string methods the code    *)
(* uses (includes, replace, replaceAll, charAt, slice, startsWith) are     *)
(* operators that compute what the JavaScript methods compute.             *)
(***************************************************************************)
EXTENDS Integers, Sequences, FiniteSets, TLC

(* ---------------- bounds of the explored inputs ---------------- *)
\* most fields an object type of the explored schemas declares
MaxFields == 2
\* deepest list nesting of an explored type reference ([[X]] is depth 2)
MaxListDepth == 2

(* ---------------- program constants ---------------- *)
scalarTypeMap ==
  <<"String", "Int", "Float", "Boolean", "ID", "NaiveTime", "NaiveDate", "NaiveDateTime">>

ignoreFields == <<"string", "number", "boolean">>

(* ---------------- JavaScript string and array methods ---------------- *)
\* Array.prototype.includes on an array of strings
arrIncludes(arr, x) == \E k \in 1..Len(arr) : arr[k] = x

\* does sub occur in s at position p (1-based)
occursAt(s, sub, p) ==
  /\ p + Len(sub) - 1 <= Len(s)
  /\ SubSeq(s, p, p + Len(sub) - 1) = sub

\* String.prototype.includes
includes(s, sub) == \E p \in 1..(Len(s) - Len(sub) + 1) : occursAt(s, sub, p)

\* String.prototype.startsWith
startsWith(s, sub) == occursAt(s, sub, 1)

\* String.prototype.replaceAll(pat, rep) / replace(/pat/g, rep) for a literal
\* pattern: leftmost non-overlapping occurrences, scanning left to right
RECURSIVE replaceAll(_, _, _)
replaceAll(s, pat, rep) ==
  IF Len(s) < Len(pat) THEN s
  ELSE IF occursAt(s, pat, 1)
       THEN rep \o replaceAll(SubSeq(s, Len(pat) + 1, Len(s)), pat, rep)
       ELSE SubSeq(s, 1, 1) \o replaceAll(SubSeq(s, 2, Len(s)), pat, rep)

\* positions of a one-character string c in s
positionsOf(s, c) == {p \in 1..Len(s) : SubSeq(s, p, p) = c}

minOf(S) == CHOOSE m \in S : \A n \in S : m <= n
maxOf(S) == CHOOSE m \in S : \A n \in S : m >= n

\* s.replaceAll(/\[(.*)\]/gm, "$1" + suffix): the type strings hold no line
\* break, so the greedy .* runs from the first "[" to the last "]" of the
\* string; the rest of the string holds no "]" and so no further match
replaceBrackets(s, suffix) ==
  LET opens == positionsOf(s, "[") IN
  IF opens = {} THEN s
  ELSE LET o      == minOf(opens)
           closes == {p \in positionsOf(s, "]") : p > o}
       IN IF closes = {} THEN s
          ELSE LET c == maxOf(closes)
               IN SubSeq(s, 1, o - 1) \o SubSeq(s, o + 1, c - 1) \o suffix
                    \o SubSeq(s, c + 1, Len(s))

\* String.prototype.toLowerCase on one character
toLowerCaseChar(c) ==
  LET upper == "ABCDEFGHIJKLMNOPQRSTUVWXYZ"
      lower == "abcdefghijklmnopqrstuvwxyz"
      hits  == positionsOf(upper, c)
  IN IF hits = {} THEN c ELSE LET p == minOf(hits) IN SubSeq(lower, p, p)

\* Array.prototype.join
RECURSIVE join(_, _)
join(parts, sep) ==
  IF Len(parts) = 0 THEN ""
  ELSE IF Len(parts) = 1 THEN parts[1]
  ELSE parts[1] \o sep \o join(Tail(parts), sep)

(* ---------------- helper functions of index.ts ---------------- *)
mapGraphQLTypeToTSType(graphqlType) ==
  LET r1 == replaceAll(graphqlType, "String", "string")
      r2 == replaceAll(r1, "Int", "number")
      r3 == replaceAll(r2, "Float", "number")
      r4 == replaceAll(r3, "Boolean", "boolean")
      r5 == replaceAll(r4, "ID", "string")
      r6 == replaceAll(r5, "NaiveDateTime", "UTCDate")
      r7 == replaceAll(r6, "NaiveTime", "UTCDate")
  IN replaceAll(r7, "NaiveDate", "UTCDate")

mapGraphQLScalarToTSType(scalarName) ==
  CASE scalarName = "String" -> "string"
    [] scalarName \in {"Int", "Float"} -> "number"
    [] scalarName = "Boolean" -> "boolean"
    [] scalarName = "ID" -> "string"
    [] scalarName \in {"NaiveDateTime", "NaiveTime", "NaiveDate"} -> "UTCDate"
    [] OTHER -> "any"

lowercaseFirstLetter(str) ==
  IF Len(str) = 0 THEN ""
  ELSE toLowerCaseChar(SubSeq(str, 1, 1)) \o SubSeq(str, 2, Len(str))

(* ---------------- schema values ---------------- *)
\* A type reference is a named type under wrappers, innermost first:
\* "L" is a List wrapper, "N" a NonNull wrapper.
TypeRef(name, wraps) == [name |-> name, wraps |-> wraps]

\* field.type.toString(): List prints "[" inner "]", NonNull prints inner "!"
RECURSIVE printWrapped(_, _)
printWrapped(inner, wraps) ==
  IF Len(wraps) = 0 THEN inner
  ELSE printWrapped(IF Head(wraps) = "L" THEN "[" \o inner \o "]" ELSE inner \o "!",
                    Tail(wraps))

typeToString(ref) == printWrapped(ref.name, ref.wraps)

Field(name, ref) == [name |-> name, type |-> ref]

\* a named type of the schema: kind, name and the kind's own data
NamedType(kind, name, fields, values, types) ==
  [kind |-> kind, name |-> name, fields |-> fields, values |-> values, types |-> types]

isObjectType(type) == type.kind = "Object"
isEnumType(type) == type.kind = "Enum"
isScalarType(type) == type.kind = "Scalar"
isInterfaceType(type) == type.kind = "Interface"
isUnionType(type) == type.kind = "Union"

(* ---------------- generateTypeScriptForType ---------------- *)
\* the .map callback of the object branch: one field, given the imports
\* text accumulated by the fields before it; yields the imports text after
\* the field and the property line the callback returns
objectFieldCallback(type, enums, imports, field) ==
  LET fieldName   == field.name
      tsType0     == mapGraphQLTypeToTSType(typeToString(field.type))
      cleanedType == replaceAll(replaceBrackets(tsType0, ""), "!", "")
      importLine  ==
        IF arrIncludes(enums, cleanedType)
        THEN "import {" \o cleanedType \o "} from \"./enums/"
               \o lowercaseFirstLetter(cleanedType) \o "\";\n"
        ELSE "import type {" \o cleanedType \o "} from \"./"
               \o lowercaseFirstLetter(cleanedType) \o "\";\n"
      imports1    ==
        IF includes(tsType0, "UTCDate")
        THEN IF ~includes(imports, "UTCDate")
             THEN imports \o "import type {UTCDate} from '@date-fns/utc';\n"
             ELSE imports
        ELSE IF ~includes(imports, cleanedType)
             THEN IF ~(isScalarType(type) \/ arrIncludes(ignoreFields, cleanedType))
                  THEN imports \o importLine
                  ELSE imports
             ELSE imports
      tsType1     == replaceBrackets(tsType0, "[]")
      line        ==
        IF includes(tsType1, "!")
        THEN "  " \o fieldName \o ": " \o replaceAll(tsType1, "!", "") \o ";"
        ELSE "  " \o fieldName \o "?: " \o tsType1 \o ";"
  IN [imports |-> imports1, line |-> line, cleanedType |-> cleanedType]

\* Object.keys(fields).map(callback) of the object branch, in field order
RECURSIVE objectFieldLines(_, _, _, _, _)
objectFieldLines(type, enums, imports, fields, lines) ==
  IF Len(fields) = 0 THEN [imports |-> imports, lines |-> lines]
  ELSE LET r == objectFieldCallback(type, enums, imports, Head(fields))
       IN objectFieldLines(type, enums, r.imports, Tail(fields), Append(lines, r.line))

\* the .map callback of the interface branch
interfaceFieldLine(field) ==
  "  " \o field.name \o ": " \o mapGraphQLTypeToTSType(typeToString(field.type)) \o ";"

enumMember(value) == "  " \o value.name \o " = \"" \o value.value \o "\""

generateTypeScriptForType(type, enums) ==
  IF isObjectType(type)
  THEN LET r == objectFieldLines(type, enums, "", type.fields, <<>>)
       IN r.imports \o "\nexport interface " \o type.name \o " {\n"
            \o join(r.lines, "\n") \o "\n}"
  ELSE IF isEnumType(type)
  THEN "export enum " \o type.name \o " {\n"
         \o join([k \in 1..Len(type.values) |-> enumMember(type.values[k])], ",\n")
         \o "\n}"
  ELSE IF isScalarType(type)
  THEN "export type " \o type.name \o " = " \o mapGraphQLScalarToTSType(type.name) \o ";"
  ELSE IF isInterfaceType(type)
  THEN "export interface " \o type.name \o " {\n"
         \o join([k \in 1..Len(type.fields) |-> interfaceFieldLine(type.fields[k])], "\n")
         \o "\n}"
  ELSE IF isUnionType(type)
  THEN "export type " \o type.name \o " = " \o join(type.types, " | ") \o ";"
  ELSE ""

(* ---------------- explored inputs ---------------- *)
\* wrapper sequences of exactly n wrappers; GraphQL never puts NonNull
\* directly around NonNull
RECURSIVE wrapsOfLen(_)
wrapsOfLen(n) ==
  IF n = 0 THEN {<<>>}
  ELSE {Append(w, x) : w \in wrapsOfLen(n - 1), x \in {"L", "N"}} \
       {Append(w, "N") : w \in {v \in wrapsOfLen(n - 1) : Len(v) > 0 /\ v[Len(v)] = "N"}}

listDepth(wraps) == Cardinality({k \in 1..Len(wraps) : wraps[k] = "L"})

\* every wrapping with at most d nested lists
wrapsUpTo(d) == {w \in UNION {wrapsOfLen(n) : n \in 0..(2 * d + 1)} : listDepth(w) <= d}

fieldNameAt(k) == SubSeq("abcdefgh", k, k)

\* the named types of the explored schemas
MetaSchemaType ==
  NamedType("Object", "__Schema", <<Field("types", TypeRef("__Type", <<"N", "L", "N">>))>>, <<>>, <<>>)
StringScalar == NamedType("Scalar", "String", <<>>, <<>>, <<>>)
UrlScalar == NamedType("Scalar", "Url", <<>>, <<>>, <<>>)
ColorEnum ==
  NamedType("Enum", "Color", <<>>,
            <<[name |-> "RED", value |-> "RED"], [name |-> "GREEN", value |-> "GREEN"]>>, <<>>)
ShapeUnion == NamedType("Union", "Shape", <<>>, <<>>, <<"Circle", "Square">>)
NamedInterface ==
  NamedType("Interface", "Named", <<Field("name", TypeRef("String", <<"N">>))>>, <<>>, <<>>)
FilterInput == NamedType("InputObject", "Filter", <<>>, <<>>, <<>>)
IDCardObject ==
  NamedType("Object", "IDCard", <<Field("number", TypeRef("String", <<"N">>))>>, <<>>, <<>>)
ColorPaletteObject ==
  NamedType("Object", "ColorPalette", <<Field("main", TypeRef("Color", <<>>))>>, <<>>, <<>>)
NodeObject(fields) == NamedType("Object", "Node", fields, <<>>, <<>>)

\* field lists of 1..MaxFields fields named a, b, ... over a set of references
fieldLists(refs) ==
  UNION {{[k \in 1..n |-> Field(fieldNameAt(k), f[k])] : f \in [1..n -> refs]} : n \in 1..MaxFields}

WalkerRefs == {TypeRef(n, w) : n \in {"String", "Color", "ColorPalette", "IDCard"}, w \in wrapsUpTo(0)}

\* type maps of the explored schemas: the enum before or after the objects
Schemas ==
  UNION {{<<MetaSchemaType, StringScalar, ColorEnum, NodeObject(fs), IDCardObject,
            ColorPaletteObject, UrlScalar, ShapeUnion, NamedInterface, FilterInput>>,
          <<NodeObject(fs), IDCardObject, ColorPaletteObject, FilterInput, NamedInterface,
            ShapeUnion, UrlScalar, StringScalar, MetaSchemaType, ColorEnum>>}
         : fs \in fieldLists(WalkerRefs)}

\* what JSON.parse of graphql.config.json can yield: an absent key reads as
\* undefined; schema and outDir are "" when absent, hasIgnore tells whether
\* the ignore key is there
ConfigFiles ==
  {[schema |-> sch, outDir |-> od, hasIgnore |-> ig.has, ignore |-> ig.list] :
     sch \in {"", "http://localhost:5000", "schema.graphql"},
     od \in {"", "./out"},
     ig \in {[has |-> FALSE, list |-> <<>>], [has |-> TRUE, list |-> <<>>],
             [has |-> TRUE, list |-> <<"Color">>], [has |-> TRUE, list |-> <<"IDCard">>]}}

GenRefs ==
  {TypeRef(n, w) : n \in {"String", "NaiveDate", "Color", "ColorPalette", "IDCard", "Node"},
                   w \in wrapsUpTo(MaxListDepth)}

(* ---------------- state ---------------- *)
VARIABLES
  pc,           \* position of main(): readConfig, checkConfig, acquire, mkdir,
                \* pass1, pass2, done, exit; "callback" in the generator runs
  config,       \* the config object of main()
  schema,       \* schema.getTypeMap() as the ordered list of named types
  i,            \* position of the running for..in loop in the type map
  enumTypes,    \* the module-level enum registry
  dirs,         \* directories created by mkdirSync
  files,        \* writeFileSync calls so far: path and content
  synthesized,  \* generateTypeScriptForType calls so far: pass and type name
  stderr,       \* first argument of the console.error call, "" if none
  exitCode,     \* argument of process.exit, -1 while running
  cbType,       \* the object type whose fields the .map callback walks
  cbCount,      \* callback invocations so far
  cbField,      \* the field of the latest invocation
  cbImports,    \* the imports text the callback closes over
  cbCleaned,    \* cleanedType of the latest invocation
  cbLine,       \* the property line the latest invocation returned
  cbSeen        \* cleanedType and date flag of every invocation so far

walkerVars == <<pc, config, schema, i, enumTypes, dirs, files, synthesized, stderr, exitCode>>
callbackVars == <<cbType, cbCount, cbField, cbImports, cbCleaned, cbLine, cbSeen>>
vars == <<pc, config, schema, i, enumTypes, dirs, files, synthesized, stderr, exitCode,
          cbType, cbCount, cbField, cbImports, cbCleaned, cbLine, cbSeen>>

defaultConfig == [schema |-> "", outDir |-> "./src/types/graphql", hasIgnore |-> TRUE, ignore |-> <<>>]

callbackIdle ==
  /\ cbType = NodeObject(<<>>)
  /\ cbCount = 0
  /\ cbField = Field("", TypeRef("", <<>>))
  /\ cbImports = ""
  /\ cbCleaned = ""
  /\ cbLine = ""
  /\ cbSeen = {}

Init ==
  /\ pc = "readConfig"
  /\ config = defaultConfig
  /\ schema = <<>>
  /\ i = 0
  /\ enumTypes = <<>>
  /\ dirs = {}
  /\ files = <<>>
  /\ synthesized = <<>>
  /\ stderr = ""
  /\ exitCode = -1
  /\ callbackIdle

(* ---------------- main() ---------------- *)
\* console.error(message, ...) followed by process.exit(1)
fail(message) ==
  /\ stderr' = message
  /\ exitCode' = 1
  /\ pc' = "exit"

\* path.join on relative segments: joins with "/" and drops a leading "./"
pathJoin(parts) ==
  LET p == join(parts, "/") IN IF startsWith(p, "./") THEN SubSeq(p, 3, Len(p)) ELSE p

\* readFileSync or JSON.parse throws
ReadConfigFails ==
  /\ pc = "readConfig"
  /\ fail("Error reading config file:")
  /\ UNCHANGED <<config, schema, i, enumTypes, dirs, files, synthesized>>
  /\ UNCHANGED callbackVars

\* config = JSON.parse(...): the parsed object replaces the default object
ReadConfig ==
  /\ pc = "readConfig"
  /\ \E parsed \in ConfigFiles : config' = parsed
  /\ pc' = "checkConfig"
  /\ UNCHANGED <<schema, i, enumTypes, dirs, files, synthesized, stderr, exitCode>>
  /\ UNCHANGED callbackVars

CheckConfig ==
  /\ pc = "checkConfig"
  /\ IF config.schema = ""
     THEN fail("Error reading config file:")
     ELSE IF config.outDir = ""
     THEN fail("Both 'schema' and 'outDir' must be provided (either via CLI options or config file).")
     ELSE pc' = "acquire" /\ UNCHANGED <<stderr, exitCode>>
  /\ UNCHANGED <<config, schema, i, enumTypes, dirs, files, synthesized>>
  /\ UNCHANGED callbackVars

isUrl(schemaPath) == startsWith(schemaPath, "http://") \/ startsWith(schemaPath, "https://")

\* a failure branch that logs and falls through instead of exiting
FetchSchemaFailsNoExit ==
  /\ pc = "acquire"
  /\ isUrl(config.schema)
  /\ \E message \in {"Error fetching schema from URL:", "Failed to fetch schema from URL:",
                     "Errors in introspection query:"} : stderr' = message
  /\ pc' = "mkdir"
  /\ UNCHANGED <<config, schema, i, enumTypes, dirs, files, synthesized, exitCode>>
  /\ UNCHANGED callbackVars

\* fetch throws, the response is not ok, the result carries errors, or
\* buildClientSchema throws
FetchSchemaFails ==
  /\ pc = "acquire"
  /\ isUrl(config.schema)
  /\ \E message \in {"Error fetching schema from URL:", "Failed to fetch schema from URL:",
                     "Errors in introspection query:"} : fail(message)
  /\ UNCHANGED <<config, schema, i, enumTypes, dirs, files, synthesized>>
  /\ UNCHANGED callbackVars

FetchSchema ==
  /\ pc = "acquire"
  /\ isUrl(config.schema)
  /\ \E typeMap \in Schemas : schema' = typeMap
  /\ pc' = "mkdir"
  /\ UNCHANGED <<config, i, enumTypes, dirs, files, synthesized, stderr, exitCode>>
  /\ UNCHANGED callbackVars

\* readFileSync or buildSchema throws
ReadSchemaFileFails ==
  /\ pc = "acquire"
  /\ ~isUrl(config.schema)
  /\ fail("Error reading schema file:")
  /\ UNCHANGED <<config, schema, i, enumTypes, dirs, files, synthesized>>
  /\ UNCHANGED callbackVars

ReadSchemaFile ==
  /\ pc = "acquire"
  /\ ~isUrl(config.schema)
  /\ \E typeMap \in Schemas : schema' = typeMap
  /\ pc' = "mkdir"
  /\ UNCHANGED <<config, i, enumTypes, dirs, files, synthesized, stderr, exitCode>>
  /\ UNCHANGED callbackVars

MakeDirs ==
  /\ pc = "mkdir"
  /\ dirs' = dirs \cup {pathJoin(<<config.outDir>>), pathJoin(<<config.outDir, "enums">>)}
  /\ pc' = "pass1"
  /\ i' = 1
  /\ UNCHANGED <<config, schema, enumTypes, files, synthesized, stderr, exitCode>>
  /\ UNCHANGED callbackVars

\* the two `continue` tests at the head of both loops; ignore.includes
\* throws a TypeError when ignore is undefined
loopThrows(typeName) == ~startsWith(typeName, "__") /\ ~config.hasIgnore

loopSkipsName(typeName) ==
  \/ startsWith(typeName, "__")
  \/ arrIncludes(config.ignore, typeName)

isBuiltinScalar(type) == isScalarType(type) /\ arrIncludes(scalarTypeMap, type.name)

\* a throw inside main() rejects its promise: main().catch logs and exits
PassThrows ==
  /\ pc \in {"pass1", "pass2"}
  /\ i <= Len(schema)
  /\ loopThrows(schema[i].name)
  /\ fail("Unexpected error:")
  /\ UNCHANGED <<config, schema, i, enumTypes, dirs, files, synthesized>>
  /\ UNCHANGED callbackVars

\* one iteration of the first loop
Pass1Step ==
  /\ pc = "pass1"
  /\ i <= Len(schema)
  /\ ~loopThrows(schema[i].name)
  /\ LET type == schema[i] IN
       IF loopSkipsName(type.name) \/ isBuiltinScalar(type) \/ ~isEnumType(type)
       THEN UNCHANGED <<enumTypes, files, synthesized>>
       ELSE LET tsContent == generateTypeScriptForType(type, enumTypes)
                filePath  == pathJoin(<<config.outDir, "enums",
                                        lowercaseFirstLetter(type.name) \o ".ts">>)
            IN /\ synthesized' = Append(synthesized, [pass |-> 1, name |-> type.name])
               /\ IF tsContent # ""
                  THEN /\ enumTypes' = Append(enumTypes, type.name)
                       /\ files' = Append(files, [path |-> filePath, content |-> tsContent])
                  ELSE UNCHANGED <<enumTypes, files>>
  /\ i' = i + 1
  /\ UNCHANGED <<pc, config, schema, dirs, stderr, exitCode>>
  /\ UNCHANGED callbackVars

\* a first loop that hands over one type early
Pass1DoneEarly ==
  /\ pc = "pass1"
  /\ i >= Len(schema)
  /\ pc' = "pass2"
  /\ i' = 1
  /\ UNCHANGED <<config, schema, enumTypes, dirs, files, synthesized, stderr, exitCode>>
  /\ UNCHANGED callbackVars

\* the first loop is over, the second starts
Pass1Done ==
  /\ pc = "pass1"
  /\ i > Len(schema)
  /\ pc' = "pass2"
  /\ i' = 1
  /\ UNCHANGED <<config, schema, enumTypes, dirs, files, synthesized, stderr, exitCode>>
  /\ UNCHANGED callbackVars

\* one iteration of the second loop
Pass2Step ==
  /\ pc = "pass2"
  /\ i <= Len(schema)
  /\ ~loopThrows(schema[i].name)
  /\ LET type == schema[i] IN
       IF loopSkipsName(type.name) \/ isBuiltinScalar(type) \/ isEnumType(type)
       THEN UNCHANGED <<files, synthesized>>
       ELSE LET tsContent == generateTypeScriptForType(type, enumTypes)
                filePath  == pathJoin(<<config.outDir, lowercaseFirstLetter(type.name) \o ".ts">>)
            IN /\ synthesized' = Append(synthesized, [pass |-> 2, name |-> type.name])
               /\ IF tsContent # ""
                  THEN files' = Append(files, [path |-> filePath, content |-> tsContent])
                  ELSE UNCHANGED files
  /\ i' = i + 1
  /\ UNCHANGED <<pc, config, schema, enumTypes, dirs, stderr, exitCode>>
  /\ UNCHANGED callbackVars

\* the second loop is over: main() returns
Pass2Done ==
  /\ pc = "pass2"
  /\ i > Len(schema)
  /\ pc' = "done"
  /\ UNCHANGED <<config, schema, i, enumTypes, dirs, files, synthesized, stderr, exitCode>>
  /\ UNCHANGED callbackVars

Next ==
  \/ ReadConfigFails
  \/ ReadConfig
  \/ CheckConfig
  \/ FetchSchemaFails
  \/ FetchSchema
  \/ ReadSchemaFileFails
  \/ ReadSchemaFile
  \/ MakeDirs
  \/ PassThrows
  \/ Pass1Step
  \/ Pass1Done
  \/ Pass2Step
  \/ Pass2Done

Spec == Init /\ [][Next]_vars

(* ---------------- the object branch, one callback at a time ---------------- *)
\* generateTypeScriptForType enters its object branch with imports = "";
\* the registry holds what pass 1 left for a schema with or without Color
InitGen ==
  /\ pc = "callback"
  /\ config = defaultConfig
  /\ schema = <<>>
  /\ i = 0
  /\ enumTypes \in {<<>>, <<"Color">>}
  /\ dirs = {}
  /\ files = <<>>
  /\ synthesized = <<>>
  /\ stderr = ""
  /\ exitCode = -1
  /\ callbackIdle

\* the callback runs on the next field of the type
FieldCallback ==
  /\ pc = "callback"
  /\ cbCount < MaxFields
  /\ \E ref \in GenRefs :
       LET field == Field(fieldNameAt(cbCount + 1), ref)
           r     == objectFieldCallback(cbType, enumTypes, cbImports, field)
       IN /\ cbField' = field
          /\ cbImports' = r.imports
          /\ cbCleaned' = r.cleanedType
          /\ cbLine' = r.line
          /\ cbSeen' = cbSeen \cup {[name |-> r.cleanedType,
                                     date |-> includes(r.line, "UTCDate")]}
  /\ cbCount' = cbCount + 1
  /\ UNCHANGED cbType
  /\ UNCHANGED walkerVars

NextGen == FieldCallback

SpecGen == InitGen /\ [][NextGen]_vars

(* ---------------- reading the output ---------------- *)
seqRange(q) == {q[k] : k \in 1..Len(q)}

\* the names pass 1 is to register: the enum types of the type map that
\* neither loop head skips
enumNamesToRegister ==
  {t.name : t \in {u \in seqRange(schema) : isEnumType(u) /\ ~loopSkipsName(u.name)}}

enumNamesOfSchema == {t.name : t \in {u \in seqRange(schema) : isEnumType(u)}}

\* where pass 2 writes the declaration of a type
declarationPath(typeName) ==
  pathJoin(<<config.outDir, lowercaseFirstLetter(typeName) \o ".ts">>)

enumDeclarationPath(typeName) ==
  pathJoin(<<config.outDir, "enums", lowercaseFirstLetter(typeName) \o ".ts">>)

\* contents written to a path
contentsAt(path) == {w.content : w \in {v \in seqRange(files) : v.path = path}}

\* the object types whose declaration pass 2 has written
emittedObjects ==
  {t \in seqRange(schema) :
     /\ isObjectType(t)
     /\ \E k \in 1..Len(synthesized) : synthesized[k] = [pass |-> 2, name |-> t.name]
     /\ contentsAt(declarationPath(t.name)) # {}}

\* the property line of a field inside a declaration text, "" if none
propertyLine(content, fieldName) ==
  LET starts == {p \in 1..Len(content) :
                   \/ occursAt(content, "\n  " \o fieldName \o ": ", p)
                   \/ occursAt(content, "\n  " \o fieldName \o "?: ", p)}
  IN IF starts = {} THEN ""
     ELSE LET b    == minOf(starts) + 1
              ends == {p \in positionsOf(content, ";") : p > b}
          IN IF ends = {} THEN "" ELSE SubSeq(content, b, minOf(ends))

\* the type text of a property line: what stands between ": " and the final ";"
typeText(line) ==
  LET colons == {p \in 1..Len(line) : occursAt(line, ": ", p)}
  IN IF colons = {} THEN "" ELSE SubSeq(line, minOf(colons) + 2, Len(line) - 1)

stripListSyntax(text) == replaceAll(replaceAll(text, "[", ""), "]", "")

countOccurrences(s, sub) == Cardinality({p \in 1..Len(s) : occursAt(s, sub, p)})

outermostNonNull(ref) == Len(ref.wraps) > 0 /\ ref.wraps[Len(ref.wraps)] = "N"

ConfigFailures ==
  {"Error reading config file:",
   "Both 'schema' and 'outDir' must be provided (either via CLI options or config file)."}

AcquisitionFailures ==
  {"Error fetching schema from URL:", "Failed to fetch schema from URL:",
   "Errors in introspection query:", "Error reading schema file:"}

(* ---------------- claims ---------------- *)
\* C1: every write to the enum registry happens in pass 1, before pass 2
\* synthesizes anything; when pass 2 runs the registry holds every enum name
\* pass 1 registers, and no step of pass 2 changes it.
C1_RegistryCompleteBeforePass2 ==
  /\ [](pc = "pass2" => seqRange(enumTypes) = enumNamesToRegister)
  /\ [][enumTypes' # enumTypes =>
          pc = "pass1" /\ \A k \in 1..Len(synthesized') : synthesized'[k].pass = 1]_vars
  /\ [][pc = "pass2" => enumTypes' = enumTypes]_vars

\* pass 2 has synthesized a declaration of a schema whose type map ends with
\* an enum that pass 1 registered
C1_Witness ==
  /\ pc = "pass2"
  /\ \E k \in 1..Len(synthesized) : synthesized[k].pass = 2
  /\ isEnumType(schema[Len(schema)])
  /\ arrIncludes(enumTypes, schema[Len(schema)].name)

\* C2: every object declaration pass 2 writes holds, for each field whose
\* referenced type is an enum type of the schema, the value import of the
\* enum from ./enums/ and no type-only import of it.
C2_EnumFieldsGetValueImport ==
  \A t \in emittedObjects : \A k \in 1..Len(t.fields) :
    LET E == t.fields[k].type.name IN
      E \in enumNamesOfSchema =>
        \A content \in contentsAt(declarationPath(t.name)) :
          /\ includes(content, "import {" \o E \o "} from \"./enums/"
                                 \o lowercaseFirstLetter(E) \o "\"")
          /\ ~includes(content, "import type {" \o E \o "} from \"./")

\* C3: a field's property line is required (name: Type;) exactly when the
\* reference is NonNull at the outermost level and optional (name?: Type;)
\* otherwise, and the line holds no "!".
C3_RequiredIffOutermostNonNull ==
  cbCount > 0 =>
    /\ outermostNonNull(cbField.type) <=> startsWith(cbLine, "  " \o cbField.name \o ": ")
    /\ ~outermostNonNull(cbField.type) <=> startsWith(cbLine, "  " \o cbField.name \o "?: ")
    /\ ~includes(cbLine, "!")

\* C4: a reference with one or more List wrappers renders as the mapped
\* element type name followed by exactly one "[]", and its baseName is the
\* bare mapped element type name.
C4_ListsCollapseToOneSuffix ==
  (cbCount > 0 /\ listDepth(cbField.type.wraps) >= 1) =>
    LET element == mapGraphQLTypeToTSType(cbField.type.name) IN
      /\ typeText(cbLine) = element \o "[]"
      /\ cbCleaned = element

\* C5: a field whose baseName is a built-in primitive or the name of the type
\* being declared adds no import line to the declaration.
C5_NoImportForPrimitiveOrSelf ==
  [][(cbCount' = cbCount + 1
        /\ (arrIncludes(ignoreFields, cbCleaned') \/ cbCleaned' = cbType.name))
       => cbImports' = cbImports]_vars

\* C6: every distinct baseName that needs an import (not a primitive, not the
\* date type, not the declared type itself) has exactly one import line in the
\* declaration, whatever the other fields import.
C6_OneImportPerBaseName ==
  \A e \in cbSeen :
    (~e.date /\ ~arrIncludes(ignoreFields, e.name) /\ e.name # cbType.name) =>
      countOccurrences(cbImports, "{" \o e.name \o "}") = 1

\* C7: a type named in the ignore set is never synthesized and no file is
\* written for it in either pass; a field that references it still renders
\* the reference by name.
C7_IgnoredTypesSkippedButReferenced ==
  /\ \A k \in 1..Len(synthesized) : ~arrIncludes(config.ignore, synthesized[k].name)
  /\ \A k \in 1..Len(config.ignore) :
       /\ contentsAt(declarationPath(config.ignore[k])) = {}
       /\ contentsAt(enumDeclarationPath(config.ignore[k])) = {}
  /\ \A t \in emittedObjects : \A k \in 1..Len(t.fields) :
       arrIncludes(config.ignore, t.fields[k].type.name) =>
         \A content \in contentsAt(declarationPath(t.name)) :
           stripListSyntax(typeText(propertyLine(content, t.fields[k].name)))
             = t.fields[k].type.name

\* C8: a run that reports a configuration or acquisition failure has exited
\* with a failure code, created no directory and written no file.
C8_FailureBeforeAnyWrite ==
  stderr \in (ConfigFailures \cup AcquisitionFailures) =>
    /\ pc = "exit"
    /\ exitCode = 1
    /\ dirs = {}
    /\ files = <<>>

\* the introspection result carried errors and the run has exited
C8_Witness ==
  /\ stderr = "Errors in introspection query:"
  /\ exitCode = 1
  /\ isUrl(config.schema)

\* C9: a config file that supplies schema is never fatal by itself: with
\* outDir or ignore omitted the defaults apply and only an acquisition
\* failure can still end the run with a failure exit.
C9_OnlyMissingSchemaIsFatal ==
  (pc = "exit" /\ config.schema # "") => stderr \in AcquisitionFailures

\* C10: a field whose named type is none of the eight table scalars renders
\* that type's name unchanged, in the type text and in the imported name.
C10_NonScalarNamesUnchanged ==
  (cbCount > 0 /\ ~arrIncludes(scalarTypeMap, cbField.type.name)) =>
    /\ stripListSyntax(typeText(cbLine)) = cbField.type.name
    /\ stripListSyntax(cbCleaned) = cbField.type.name

====
